---- MODULE Spec2Model ----
(***************************************************************************)
(* State-machine model of simpleab.py: BaseAB.test / BaseAB.record, the    *)
(* two concrete variants SimpleAB and ConfigurableAB, quick_test, and a    *)
(* storage collaborator (DummyStorage, or a storage that keeps what        *)
(* set_side gave it).  Python semantics follow Python 2, the language of   *)
(* the source (dict.keys() is a list, random.choice accepts it).           *)
(* The program is single-threaded and instances meet only in the storage:  *)
(* the model keeps the instance in use in `obj`; a constructor replaces    *)
(* it, and the storage outlives it.  Side identifiers are non-empty        *)
(* tokens; None and "" are the values Python's `not` treats as no side.    *)
(***************************************************************************)
EXTENDS Naturals, Sequences, FiniteSets

\* ---------------------------------------------------------------- bounds
NumIdentities == 1    \* distinct user identities besides None

\* ---------------------------------------------------------------- values
None == "<None>"                      \* Python's None
Falsy(x) == x \in {None, ""}          \* what `not x` accepts for None / str

IdName == <<"u1", "u2", "u3">>
Identities == {None} \cup {IdName[i] : i \in 1..NumIdentities}

SideNames == {"A", "B"}               \* identifiers a test may define
SideUniverse == SideNames \cup {"Q"}  \* "Q": a token no test defines
Names == {None, "", "MyTest"}         \* values of the `name` attribute
TruthyNames == {n \in Names : ~Falsy(n)}
Keys == Identities \X TruthyNames     \* (identity, name) storage keys

AttrKinds == {"absent", "method", "data"}   \* how a class binds 'A'..'Z'
\* The SimpleAB subclasses a run may define: name and bindings of A, B.
ClassDefs ==
  { [name |-> "MyTest", A |-> "method", B |-> "method"],
    [name |-> "MyTest", A |-> "data",   B |-> "method"],
    [name |-> "MyTest", A |-> "absent", B |-> "absent"],
    [name |-> None,     A |-> "method", B |-> "absent"] }
StorageKinds == {None, "dummy", "shared"}   \* None: no storage attached
Selectors == {None, "custom"}               \* ConfigurableAB(selector=...)
ForceArgs == {None, ""} \cup SideUniverse   \* test(force_side=...)
RecordArgs == {None, "A", "Q"}               \* record(side=...)
\* Constructor arguments of ConfigurableAB / quick_test that are tried: the
\* docstring's configuration with each selector and each name, one without
\* sides, and the docstring's configuration with each kind of storage.
ConfArg(identity, storage, name, sides, selector) ==
  [identity |-> identity, storage |-> storage, name |-> name,
   sides |-> sides, selector |-> selector]
ConfArgs ==
  { ConfArg(None, None, n, {"A", "B"}, None) : n \in Names }
  \cup { ConfArg(None, None, "MyTest", {"A", "B"}, "custom"),
         ConfArg(None, None, "MyTest", {}, None) }
  \cup { ConfArg("u1", s, "MyTest", {"A", "B"}, None) :
           s \in StorageKinds \ {None} }

ValueOf(side) == "Side " \o side      \* the value a side maps to

\* ---------------------------------------------------------------- state
VARIABLES
  clsname,    \* `name` class attribute of the SimpleAB subclass
  attrs,      \* how the SimpleAB subclass binds each identifier
  obj,        \* the fields of the instance in use (cls "none": not built)
  store,      \* shared storage: (identity, name) -> side or None
  calls,      \* storage calls issued by the last operation, in order
  last,       \* what the last operation was given and what it produced
  lastOk,     \* history: side of the latest test() that returned, per key
  persisted   \* history: the keys whose stored side a test() call wrote

vars == <<clsname, attrs, obj, store, calls, last, lastOk, persisted>>

NoObj ==
  [cls |-> "none", identity |-> None, storage |-> None, name |-> None,
   sides |-> {}, selector |-> None, side |-> None]

Call(fn, identity, name, side, sides) ==
  [fn |-> fn, identity |-> identity, name |-> name, side |-> side,
   sides |-> sides]

\* ------------------------------------------------------- DummyStorage etc.
\* get_side: DummyStorage returns None; a contract-honouring storage returns
\* what set_side stored.
get_side(st, o) ==
  IF o.storage = "shared" /\ <<o.identity, o.name>> \in Keys
  THEN st[<<o.identity, o.name>>]
  ELSE None

set_side(st, o, side) ==
  IF o.storage = "shared" /\ <<o.identity, o.name>> \in Keys
  THEN [st EXCEPT ![<<o.identity, o.name>>] = side]
  ELSE st

\* ------------------------------------------------------------ allowed_sides
SimpleAB_allowed_sides == {x \in SideNames : attrs[x] # "absent"}

ConfigurableAB_allowed_sides(sides) == IF sides # {} THEN sides ELSE {}

allowed_sides(o) ==
  IF o.cls = "SimpleAB" THEN SimpleAB_allowed_sides
  ELSE ConfigurableAB_allowed_sides(o.sides)

\* ------------------------------------------------------------- select_side
\* The values select_side can return: random.choice over allowed_sides, or
\* whatever a custom selector returns.
select_side(o) ==
  IF o.cls = "ConfigurableAB" /\ o.selector # None
  THEN {None, ""} \cup SideUniverse
  ELSE allowed_sides(o)

\* -------------------------------------------------------------- apply_side
SimpleAB_apply_side(side) ==
  IF side \in SideNames /\ attrs[side] = "method"
  THEN [outcome |-> "ok", value |-> ValueOf(side)]
  ELSE [outcome |-> "NotImplementedSide", value |-> None]

ConfigurableAB_apply_side(sides, side) ==
  IF side \in sides
  THEN [outcome |-> "ok", value |-> ValueOf(side)]
  ELSE [outcome |-> "KeyError", value |-> None]

apply_side(o, side) ==
  IF o.cls = "SimpleAB" THEN SimpleAB_apply_side(side)
  ELSE ConfigurableAB_apply_side(o.sides, side)

\* ------------------------------------------------------------ BaseAB.test
\* A configuration check that forgets the allowed sides.
ConfigCheck_NameOnly(o) ==
  IF Falsy(o.name) THEN "TestShouldBeNamed" ELSE ""

\* lines 118-121: the configuration check; "" when the instance is usable
ConfigCheck(o) ==
  IF Falsy(o.name) THEN "TestShouldBeNamed"
  ELSE IF allowed_sides(o) = {} THEN "SidesNotGiven"
  ELSE ""

\* A load that lets the stored side override a forced one.
LoadNeeded_StoredFirst(o, force) == o.storage # None

\* line 125: is the storage asked for a side?
LoadNeeded(o, force) == Falsy(force) /\ o.storage # None

\* line 128: is the selection strategy asked for a side?
SelectNeeded(side) == Falsy(side)

\* A validation that forgets the membership test.
UnknownSide_NoMembership(side, allowed) == Falsy(side)

\* line 131: is the resolved side rejected?
UnknownSide(side, allowed) == Falsy(side) \/ side \notin allowed

TestFail(o, st, outcome, cs, selected, resolved) ==
  [outcome |-> outcome, value |-> None, side |-> o.side, store |-> st,
   calls |-> cs, selected |-> selected, resolved |-> resolved,
   committed |-> FALSE]

\* The whole of test(): `pick` is what select_side returns if it is called.
test(o, force, pick, st) ==
  LET cfg == ConfigCheck(o) IN
  IF cfg # "" THEN TestFail(o, st, cfg, <<>>, FALSE, None)
  ELSE
    LET load == LoadNeeded(o, force)
        s2 == IF load THEN get_side(st, o) ELSE force
        c2 == IF load THEN <<Call("get_side", o.identity, o.name, None, {})>>
              ELSE <<>>
        sel == SelectNeeded(s2)
        s3 == IF sel THEN pick ELSE s2
    IN
    IF UnknownSide(s3, allowed_sides(o))
    THEN TestFail(o, st, "UnknownSide", c2, sel, s3)
    ELSE
      LET c3 == IF o.storage # None
                THEN Append(c2, Call("set_side", o.identity, o.name, s3, {}))
                ELSE c2
          r == apply_side(o, s3)
      IN [outcome |-> r.outcome, value |-> r.value, side |-> s3,
          store |-> set_side(st, o, s3), calls |-> c3, selected |-> sel,
          resolved |-> s3, committed |-> TRUE]

\* ---------------------------------------------------------- BaseAB.record
\* A record() that substitutes the current side for an omitted one.
record_CurrentSide(o, side) ==
  IF o.storage # None
  THEN <<Call("record", o.identity, o.name,
              IF side = None THEN o.side ELSE side, {})>>
  ELSE <<>>

\* lines 146-147: the storage calls record(side) issues
record(o, side) ==
  IF o.storage # None
  THEN <<Call("record", o.identity, o.name, side, {})>>
  ELSE <<>>

\* ---------------------------------------------------------------- Init
\* `last` keeps the inputs and the result of the last operation: `arg` is
\* force_side for test() and side for record(), `prevSide` the current side
\* before the call, `name` and `allowed` those of the instance operated on.
Last(op, o, arg, res) ==
  [op |-> op, cls |-> o.cls, storage |-> o.storage, name |-> o.name,
   allowed |-> allowed_sides(o), arg |-> arg, prevSide |-> o.side,
   outcome |-> res.outcome, value |-> res.value,
   resolved |-> res.resolved, selected |-> res.selected]

NoRes(outcome) ==
  [outcome |-> outcome, value |-> None, resolved |-> None,
   selected |-> FALSE, committed |-> FALSE]

Init ==
  /\ \E c \in ClassDefs :
       /\ clsname = c.name
       /\ attrs = [x \in SideNames |-> IF x = "A" THEN c.A ELSE c.B]
  /\ obj = NoObj
  /\ store \in [Keys -> {None, "Q"}]   \* "Q": left by a retired variant
  /\ calls = <<>>
  /\ last = [op |-> "init", cls |-> "none", storage |-> None, name |-> None,
             allowed |-> {}, arg |-> None, prevSide |-> None,
             outcome |-> "ok", value |-> None, resolved |-> None,
             selected |-> FALSE]
  /\ lastOk = [k \in Keys |-> None]
  /\ persisted = {}

\* ------------------------------------------------------------ constructors
\* BaseAB.__init__ (lines 79-83) as run for a SimpleAB subclass.
SimpleAB_init(identity, storage) ==
  [cls |-> "SimpleAB", identity |-> identity, storage |-> storage,
   name |-> clsname, sides |-> {}, selector |-> None, side |-> None]

NewSimpleAB(identity, storage) ==
  LET o == SimpleAB_init(identity, storage)
  IN /\ obj' = o
     /\ calls' = IF storage # None
                 THEN <<Call("create", None, o.name, None, allowed_sides(o))>>
                 ELSE <<>>
     /\ last' = Last("construct", o, None, NoRes("ok"))
     /\ UNCHANGED <<clsname, attrs, store, lastOk, persisted>>

\* ConfigurableAB.__init__: BaseAB.__init__ runs first, while self.sides is
\* not yet set; with a storage it evaluates self.allowed_sides, which reads
\* self.sides and raises AttributeError before create is called.
ConfigurableAB_init(a) ==
  IF a.storage # None
  THEN [outcome |-> "AttributeError", obj |-> NoObj]
  ELSE [outcome |-> "ok",
        obj |-> [cls |-> "ConfigurableAB", identity |-> a.identity,
                 storage |-> a.storage, name |-> a.name, sides |-> a.sides,
                 selector |-> a.selector, side |-> None]]

\* The instance the caller asked for, whether or not it got built.
Asked(a) ==
  [cls |-> "ConfigurableAB", identity |-> a.identity, storage |-> a.storage,
   name |-> a.name, sides |-> a.sides, selector |-> a.selector,
   side |-> None]

NewConfigurableAB(a) ==
  LET c == ConfigurableAB_init(a)
  IN /\ obj' = IF c.outcome = "ok" THEN c.obj ELSE obj
     /\ calls' = <<>>
     /\ last' = Last("construct", Asked(a), None, NoRes(c.outcome))
     /\ UNCHANGED <<clsname, attrs, store, lastOk, persisted>>

\* ------------------------------------------------------------- operations
\* Bookkeeping of the two history variables after a test() call.
History(o, r) ==
  LET k == <<o.identity, o.name>> IN
  IF o.storage = "shared" /\ k \in Keys /\ r.committed
  THEN /\ lastOk' = IF r.outcome = "ok"
                    THEN [lastOk EXCEPT ![k] = r.resolved]
                    ELSE lastOk
       /\ persisted' = persisted \cup {k}
  ELSE UNCHANGED <<lastOk, persisted>>

\* What select_side can return in this call; {None} when it is not called.
PickSet(o, force, st) ==
  IF ConfigCheck(o) = ""
     /\ SelectNeeded(IF LoadNeeded(o, force) THEN get_side(st, o) ELSE force)
  THEN select_side(o)
  ELSE {None}

Test(force) ==
  /\ obj.cls # "none"
  /\ \E pick \in PickSet(obj, force, store) :
       \E r \in {test(obj, force, pick, store)} :
          /\ obj' = [obj EXCEPT !.side = r.side]
          /\ store' = r.store
          /\ calls' = r.calls
          /\ last' = Last("test", obj, force, r)
          /\ History(obj, r)
  /\ UNCHANGED <<clsname, attrs>>

Record(side) ==
  /\ obj.cls # "none"
  /\ calls' = record(obj, side)
  /\ last' = Last("record", obj, side, NoRes("ok"))
  /\ UNCHANGED <<clsname, attrs, obj, store, lastOk, persisted>>

\* quick_test: construct a ConfigurableAB and call test() on it at once; the
\* instance is not kept.
QuickTest(a) ==
  LET c == ConfigurableAB_init(a)
  IN IF c.outcome # "ok"
     THEN /\ calls' = <<>>
          /\ last' = Last("quick_test", Asked(a), None, NoRes(c.outcome))
          /\ UNCHANGED <<clsname, attrs, obj, store, lastOk, persisted>>
     ELSE \E pick \in PickSet(c.obj, None, store) :
            \E r \in {test(c.obj, None, pick, store)} :
               /\ store' = r.store
               /\ calls' = r.calls
               /\ last' = Last("quick_test", c.obj, None, r)
               /\ History(c.obj, r)
               /\ UNCHANGED <<clsname, attrs, obj>>

Next ==
  \/ \E id \in Identities, s \in StorageKinds : NewSimpleAB(id, s)
  \/ \E a \in ConfArgs : NewConfigurableAB(a)
  \/ \E f \in ForceArgs : Test(f)
  \/ \E a \in RecordArgs : Record(a)
  \/ \E a \in ConfArgs : QuickTest(a)

Spec == Init /\ [][Next]_vars

\* =================================================================== claims
ConfigurationErrors == {"TestShouldBeNamed", "SidesNotGiven"}
ValidationErrors == {"UnknownSide", "NotImplementedSide"}
CallsOf(fn) == Cardinality({i \in 1..Len(calls) : calls[i].fn = fn})
ObjKey == <<obj.identity, obj.name>>

\* C1: whenever test() returns a value, the side it resolved is a member of
\* allowed_sides and is the current side afterwards, whichever source gave
\* it; and a resolved side that is absent or outside allowed_sides makes
\* test() fail with the validation error instead of returning a value.
C1_ResolvedSideAllowed ==
  last.op \in {"test", "quick_test"} =>
    /\ last.outcome = "ok" =>
         /\ last.resolved \in last.allowed
         /\ last.op = "test" => obj.side = last.resolved
    /\ ( /\ last.outcome \notin ConfigurationErrors \cup {"AttributeError"}
         /\ Falsy(last.resolved) \/ last.resolved \notin last.allowed )
       => last.outcome = "UnknownSide" /\ last.value = None

\* A custom selector's side was accepted and returned.
C1_Witness ==
  /\ last.op = "test" /\ last.cls = "ConfigurableAB"
  /\ obj.selector = "custom" /\ last.selected
  /\ last.outcome = "ok" /\ obj.side = last.resolved

\* C2 (as claimed): on a named test, a forced side that is a member of
\* allowed_sides is returned with exactly its value, becomes the current
\* side, and neither get_side nor the selection strategy is consulted.
C2_ForcedSideValue ==
  ( /\ last.op = "test" /\ ~Falsy(last.name)
    /\ ~Falsy(last.arg) /\ last.arg \in last.allowed ) =>
    /\ last.outcome = "ok"
    /\ last.value = ValueOf(last.arg)
    /\ obj.side = last.arg
    /\ ~last.selected
    /\ CallsOf("get_side") = 0

\* C3 (as claimed): every given forced side outside allowed_sides, the empty
\* string included, makes test() fail with the validation error when name
\* and allowed_sides are valid.
C3_AnyForcedOutsideFails ==
  ( /\ last.op = "test" /\ ~Falsy(last.name) /\ last.allowed # {}
    /\ last.arg # None /\ last.arg \notin last.allowed )
  => last.outcome = "UnknownSide"

\* C3 (amended): every non-empty forced side outside allowed_sides makes
\* test() fail with the validation error when name and allowed_sides are
\* valid, whatever the storage holds and the selection would return.
C3_NonEmptyForcedOutsideFails ==
  ( /\ last.op = "test" /\ ~Falsy(last.name) /\ last.allowed # {}
    /\ ~Falsy(last.arg) /\ last.arg \notin last.allowed )
  => last.outcome = "UnknownSide" /\ last.value = None

\* A forced unknown side failed although the storage held an allowed side.
C3_Witness ==
  /\ last.op = "test" /\ last.arg = "Q"
  /\ obj.storage = "shared" /\ ObjKey \in Keys
  /\ store[ObjKey] \in last.allowed
  /\ last.outcome = "UnknownSide"

\* C4 (as claimed): once a test() call has persisted side S for (identity,
\* name), a test() without forced side on a new instance (one with no
\* current side yet) with that identity, name and storage resolves to S and
\* returns S's value without invoking the selection strategy; and the
\* selection strategy is invoked only when no side is forced and the
\* storage is absent or returns no side.
C4_StoredSideReused ==
  [][ /\ ( /\ last'.op = "test" /\ Falsy(last'.arg)
           /\ obj.storage = "shared" /\ obj.side = None
           /\ ObjKey \in persisted )
         => /\ last'.resolved = store[ObjKey]
            /\ ~last'.selected
            /\ last'.outcome = "ok"
            /\ last'.value = ValueOf(store[ObjKey])
      /\ ( last'.op \in {"test", "quick_test"} /\ last'.selected )
         => /\ Falsy(last'.arg)
            /\ \/ last'.storage = None
               \/ last'.op = "test" /\ Falsy(get_side(store, obj))
    ]_vars

\* C5 (as claimed): record(side) with storage forwards one event whose side
\* is the given side, or the current side when side is omitted; without
\* storage it issues nothing.
C5_RecordForwardsSideOrCurrent ==
  last.op = "record" =>
    calls = IF obj.storage # None
            THEN <<Call("record", obj.identity, obj.name,
                        IF last.arg # None THEN last.arg ELSE obj.side, {})>>
            ELSE <<>>

\* C5 (amended): record(side) with storage forwards exactly one event for
\* (identity, name, side) with the side as given, None when it is omitted;
\* without storage it issues no storage call and does not fail.
C5_RecordForwardsGivenSide ==
  last.op = "record" =>
    /\ last.outcome = "ok"
    /\ calls = IF obj.storage # None
               THEN <<Call("record", obj.identity, obj.name, last.arg, {})>>
               ELSE <<>>

\* record() without a side on an instance that has a current side.
C5_Witness ==
  /\ last.op = "record" /\ last.arg = None
  /\ obj.storage # None /\ obj.side # None
  /\ Len(calls) = 1 /\ calls[1].side = None

\* C6 (as claimed): a test() call that fails with a configuration or a
\* validation error leaves current_side as it was and issues no set_side.
C6_NoPartialState ==
  ( /\ last.op = "test"
    /\ last.outcome \in ConfigurationErrors \cup ValidationErrors )
  => obj.side = last.prevSide /\ CallsOf("set_side") = 0

\* C7 (as claimed): SimpleAB.allowed_sides is exactly the identifiers bound
\* to an invocable behaviour, so no side that passes validation meets the
\* 'side not implemented' error.
C7_AllowedSidesInvocable ==
  /\ obj.cls = "SimpleAB" =>
       allowed_sides(obj) = {x \in SideNames : attrs[x] = "method"}
  /\ (last.op = "test" /\ last.cls = "SimpleAB") =>
       last.outcome # "NotImplementedSide"

\* C8: with name unset or empty, or allowed_sides empty, test() fails with
\* the configuration error first: also with a forced side or a stored side,
\* with no get_side or set_side call and without selecting.
C8_ConfigurationErrorFirst ==
  ( /\ last.op \in {"test", "quick_test"}
    /\ Falsy(last.name) \/ last.allowed = {} )
  => /\ last.outcome \in ConfigurationErrors
     /\ Falsy(last.name) => last.outcome = "TestShouldBeNamed"
     /\ calls = <<>>
     /\ ~last.selected
     /\ last.op = "test" => obj.side = last.prevSide

\* A forced side and a stored side, yet no allowed sides: configuration error.
C8_Witness ==
  /\ last.op = "test" /\ last.allowed = {} /\ last.arg = "A"
  /\ obj.storage = "shared" /\ ObjKey \in Keys /\ store[ObjKey] # None
  /\ last.outcome = "SidesNotGiven"

\* C9 (as claimed): constructing any variant with a storage attached, also
\* through quick_test, succeeds and issues exactly one create call, first,
\* with the experiment name and the allowed sides it is configured with.
C9_CreateOnConstruct ==
  (last.op \in {"construct", "quick_test"} /\ last.storage # None) =>
    /\ last.outcome # "AttributeError"
    /\ Len(calls) >= 1
    /\ calls[1] = Call("create", None, last.name, None, last.allowed)
    /\ CallsOf("create") = 1

\* C10 (as claimed): a successful test() with storage issues exactly one
\* set_side with the resolved side, and the side stored for (identity, name)
\* is the side of the most recent successful test() and an allowed side.
C10_StoredIsLastSuccessful ==
  /\ (last.op = "test" /\ last.outcome = "ok" /\ obj.storage # None) =>
       /\ CallsOf("set_side") = 1
       /\ calls[Len(calls)] =
            Call("set_side", obj.identity, obj.name, last.resolved, {})
  /\ \A k \in Keys :
       lastOk[k] # None =>
         store[k] = lastOk[k] /\ store[k] \in SimpleAB_allowed_sides
====
